---- MODULE Spec2Model ----
(***************************************************************************)
(* Emmet abbreviation completion provider (src/autocomplete/provider.ts).  *)
(*                                                                         *)
(* One completion request (provideCompletionItems) is one atomic step: the *)
(* host is single threaded and the handler has no suspension point.  The   *)
(* state is the document text and the tracker slot of each editor, plus    *)
(* `last`, the record of what the latest request did (which collaborators  *)
(* it consulted, what it passed to them, what it returned).                *)
(*                                                                         *)
(* `prior` is a history variable kept under SpecStale only: what the       *)
(* request before the latest one worked with, and what the slot held when  *)
(* the latest one started.                                                 *)
(*                                                                         *)
(* Optional values (T | undefined) are sets with at most one element.      *)
(***************************************************************************)
EXTENDS Integers, Sequences, FiniteSets, TLC

VARIABLES doc, trackers, last, prior

vars == <<doc, trackers, last, prior>>

\* Longest document text of the model.
MaxDocLen == 2

Editors == {"e1", "e2"}

\* The editors that receive events under Spec.
Active == {"e1"}

Absent == {}
Some(x) == {x}
The(o) == CHOOSE x \in o : TRUE

Min(a, b) == IF a < b THEN a ELSE b

(***************************************************************************)
(* Characters.                                                             *)
(***************************************************************************)
Letters == {"a", "Z"}
WhiteSpace == {" "}

\* Every character of the model: letters, white space, the punctuation the
\* provider tells apart, and a digit standing for every other character.
AllChars == Letters \cup WhiteSpace \cup
            {".", "#", "(", ")", "[", "]", "{", "}", ">", "1"}

\* The characters the user types under Spec: a letter, a paired opener, its
\* closer, and the '>' operator.
TypedChars == {"a", "(", ")", ">"}

\* CompletionReason of the host; anything but Invoke is typing.
Reasons == {"Invoke", "Character"}

(***************************************************************************)
(* External collaborators.                                                 *)
(***************************************************************************)
\* ActivationContext values getAbbreviationContext can resolve.
ActivationContexts ==
    { [syntax |-> "html", inline |-> FALSE, context |-> "div"],
      [syntax |-> "css", inline |-> TRUE, context |-> "prop"] }

\* getSyntaxType (../syntax).
getSyntaxType(syntax) == IF syntax = "css" THEN "stylesheet" ELSE "markup"

\* The editor state getOutputOptions reads (indentation settings, the
\* indentation of the caret's line); it may differ from request to request.
Formats == { [indent |-> "\t", baseIndent |-> ""],
             [indent |-> "    ", baseIndent |-> "\t"] }

\* getOutputOptions (../emmet): formatting options of the editor.
getOutputOptions(fmt, inline) ==
    [field |-> "field", indent |-> fmt.indent,
     baseIndent |-> fmt.baseIndent, format |-> ~inline]

\* Fields of an abbreviation: index and placeholder text.
FieldIndexes == {0, 1}
Placeholders == {<<>>, <<"x">>}

\* The field renderer of getOutputOptions (../emmet): a tab stop of the editor.
field(index, placeholder) ==
    <<"$", "{", IF index = 0 THEN "0" ELSE "1">>
      \o (IF placeholder = <<>> THEN <<>> ELSE <<":">> \o placeholder)
      \o <<"}">>

\* What the two calls of expand do in one request.
ExpandOutcomes == {"ok", "normalFails", "previewFails"}

\* expand (../emmet) when it succeeds: the text determined by abbr and config.
expand(abbr, config) == [abbr |-> abbr, config |-> config]

\* extract (../emmet): the boundaries it can find at or before pos.
Boundaries(pos) ==
    { [start |-> s, end |-> e] : s \in 0..pos, e \in 0..pos } \cap
    { b \in [start : 0..pos, end : 0..pos] : b.start < b.end }

\* toRange (../utils): tracker range tuple -> host Range.
toRange(range) == [start |-> range[1], end |-> range[2]]

\* editor.getTextInRange of the host; the text of a range reaching past the
\* document ends with the document.
getTextInRange(text, range) ==
    IF range.start < Min(range.end, Len(text))
    THEN SubSeq(text, range.start + 1, Min(range.end, Len(text)))
    ELSE <<>>

(***************************************************************************)
(* Tracker registry (./tracker): one slot per editor.                      *)
(***************************************************************************)
getTracker(slot) == slot

startTracking(start, end) == [range |-> <<start, end>>]

stopTracking(slot) == Absent

\* Object.assign(tracker, abbrCtx, {options})
Assign(tracker, abbrCtx, options) ==
    [range |-> tracker.range, syntax |-> abbrCtx.syntax,
     inline |-> abbrCtx.inline, context |-> abbrCtx.context,
     options |-> options]

(***************************************************************************)
(* provider.ts                                                             *)
(***************************************************************************)
pairs == [c \in {"{", "[", "("} |->
            CASE c = "{" -> "}" [] c = "[" -> "]" [] c = "(" -> ")"]

\* String.prototype.slice(-n)
Slice(s, n) == IF Len(s) <= n THEN s ELSE SubSeq(s, Len(s) - n + 1, Len(s))

\* characters the trigger pattern accepts as abbreviation start
AbbrStart == Letters \cup {".", "#", "[", "("}

\* characters the trigger pattern accepts before the abbreviation start
WordBound == WhiteSpace \cup {">"}

\* mutant: the pattern without its ^ anchor
TriggerTest_Unanchored(prefix) ==
    /\ Len(prefix) \in {1, 2}
    /\ prefix[Len(prefix)] \in AbbrStart

\* /^[\s>]?[a-zA-Z.#\[\(]$/.test(prefix)
TriggerTest(prefix) ==
    /\ Len(prefix) \in {1, 2}
    /\ prefix[Len(prefix)] \in AbbrStart
    /\ Len(prefix) = 2 => prefix[1] \in WordBound

\* mutant: the next character is compared with the opener itself
PairedEnd_SameChar(text, pos, lastCh) ==
    IF lastCh \in DOMAIN pairs
    THEN LET nextCharRange ==
                 [start |-> pos, end |-> Min(pos + 1, Len(text))]
         IN IF getTextInRange(text, nextCharRange) = <<lastCh>>
            THEN pos + 1
            ELSE pos
    ELSE pos

\* mutant: the range is extended after every opener, without the lookahead
PairedEnd_NoLookahead(text, pos, lastCh) ==
    IF lastCh \in DOMAIN pairs THEN pos + 1 ELSE pos

\* the paired-character check of startAbbreviationTracking
PairedEnd(text, pos, lastCh) ==
    IF lastCh \in DOMAIN pairs
    THEN LET nextCharRange ==
                 [start |-> pos, end |-> Min(pos + 1, Len(text))]
         IN IF getTextInRange(text, nextCharRange) = <<pairs[lastCh]>>
            THEN pos + 1
            ELSE pos
    ELSE pos

NoDecision ==
    [tracker |-> Absent, triggerTested |-> FALSE, resolverCalls |-> 0,
     extractCalls |-> 0, startCalls |-> 0]

\* mutant: a missing activation context does not stop the start
startAbbreviationTracking_NoCtxCheck(text, ctx, found, fmt) ==
    LET prefix == Slice(ctx.line, 2)
        pos == ctx.position
        abbrCtx == IF found # Absent THEN The(found)
                   ELSE [syntax |-> "html", inline |-> FALSE,
                         context |-> "div"]
    IN IF TriggerTest(prefix)
       THEN [NoDecision EXCEPT
               !.tracker = Some(Assign(
                   startTracking(pos - 1,
                                 PairedEnd(text, pos, Slice(prefix, 1)[1])),
                   abbrCtx, getOutputOptions(fmt, abbrCtx.inline))),
               !.triggerTested = TRUE, !.resolverCalls = 1, !.startCalls = 1]
       ELSE [NoDecision EXCEPT !.triggerTested = TRUE]

\* found: what getAbbreviationContext(editor, pos) answers when asked.
startAbbreviationTracking(text, ctx, found, fmt) ==
    LET prefix == Slice(ctx.line, 2)
        pos == ctx.position
    IN IF TriggerTest(prefix)
       THEN IF found # Absent
            THEN LET abbrCtx == The(found)
                     start == pos - 1
                     lastCh == Slice(prefix, 1)[1]
                     end == PairedEnd(text, pos, lastCh)
                     tracker == startTracking(start, end)
                 IN [NoDecision EXCEPT
                       !.tracker = Some(Assign(tracker, abbrCtx,
                                     getOutputOptions(fmt, abbrCtx.inline))),
                       !.triggerTested = TRUE,
                       !.resolverCalls = 1,
                       !.startCalls = 1]
            ELSE [NoDecision EXCEPT !.triggerTested = TRUE,
                                    !.resolverCalls = 1]
       ELSE [NoDecision EXCEPT !.triggerTested = TRUE]

getConfig(fmt, abbrCtx) ==
    [type |-> getSyntaxType(abbrCtx.syntax),
     syntax |-> abbrCtx.syntax,
     context |-> abbrCtx.context,
     options |-> getOutputOptions(fmt, abbrCtx.inline)]

\* mutant: the tracked range ends at the caret, not at the extracted end
extractAbbreviationTracking_EndAtCaret(ctx, found, boundary, fmt) ==
    IF found # Absent /\ boundary # Absent
    THEN [NoDecision EXCEPT
            !.tracker = Some(Assign(
                startTracking(The(boundary).start, ctx.position), The(found),
                getOutputOptions(fmt, The(found).inline))),
            !.resolverCalls = 1, !.extractCalls = 1, !.startCalls = 1]
    ELSE [NoDecision EXCEPT !.resolverCalls = 1,
                            !.extractCalls = IF found # Absent THEN 1 ELSE 0]

\* found: the answer of getAbbreviationContext; boundary: the answer of
\* extract(editor, pos, config) when asked.
extractAbbreviationTracking(ctx, found, boundary, fmt) ==
    IF found # Absent
    THEN LET abbrCtx == The(found)
             config == getConfig(fmt, abbrCtx)
         IN IF boundary # Absent
            THEN LET abbr == The(boundary)
                     tracker == startTracking(abbr.start, abbr.end)
                 IN [NoDecision EXCEPT
                       !.tracker = Some(Assign(tracker, abbrCtx,
                                     getOutputOptions(fmt, abbrCtx.inline))),
                       !.resolverCalls = 1,
                       !.extractCalls = 1,
                       !.startCalls = 1]
            ELSE [NoDecision EXCEPT !.resolverCalls = 1, !.extractCalls = 1]
    ELSE [NoDecision EXCEPT !.resolverCalls = 1]

previewField(index, placeholder) == placeholder

\* The renderer an 'output.field' option names, applied by the engine to a
\* field of the abbreviation.
Render(name, index, placeholder) ==
    IF name = "previewField"
    THEN previewField(index, placeholder)
    ELSE field(index, placeholder)

\* mutant: the options of the configuration are not spread into the preview's
getPreviewConfig_OptionsOnly(config) ==
    [config EXCEPT !.options =
        [field |-> "previewField", indent |-> "  ", baseIndent |-> "",
         format |-> TRUE]]

\* mutant: the preview configuration is the configuration itself
getPreviewConfig_Same(config) == config

getPreviewConfig(config) ==
    [config EXCEPT !.options =
        [config.options EXCEPT !.field = "previewField",
                               !.indent = "  ",
                               !.baseIndent = ""]]

\* mutant: a failed preview expansion leaves the documentation empty
createExpandAbbreviationCompletion_NoPreview(text, tracker, config, outcome) ==
    LET abbrRange == toRange(tracker.range)
        abbr == getTextInRange(text, abbrRange)
    IN IF outcome = "normalFails"
       THEN [threw |-> TRUE, item |-> Absent, expandCalls |-> 1]
       ELSE [threw |-> FALSE,
             item |-> Some([label |-> abbr,
                            kind |-> "Expression",
                            tokenize |-> TRUE,
                            range |-> abbrRange,
                            insertText |-> expand(abbr, config),
                            detail |-> "Emmet",
                            documentation |->
                                IF outcome = "previewFails"
                                THEN expand(<<>>, getPreviewConfig(config))
                                ELSE expand(abbr, getPreviewConfig(config))]),
             expandCalls |-> 2]

\* outcome: what the expansion engine does with the two expand calls.
createExpandAbbreviationCompletion(text, tracker, config, outcome) ==
    LET abbrRange == toRange(tracker.range)
        abbr == getTextInRange(text, abbrRange)
    IN IF outcome = "normalFails"
       THEN [threw |-> TRUE, item |-> Absent, expandCalls |-> 1]
       ELSE IF outcome = "previewFails"
       THEN [threw |-> TRUE, item |-> Absent, expandCalls |-> 2]
       ELSE LET snippet == expand(abbr, config)
                preview == expand(abbr, getPreviewConfig(config))
            IN [threw |-> FALSE,
                item |-> Some([label |-> abbr,
                               kind |-> "Expression",
                               tokenize |-> TRUE,
                               range |-> abbrRange,
                               insertText |-> snippet,
                               detail |-> "Emmet",
                               documentation |-> preview]),
                expandCalls |-> 2]

\* mutant: the activation runs whether or not a tracker is live
NeedsTracking_Always(tracker) == TRUE

\* if (!tracker)
NeedsTracking(tracker) == tracker = Absent

\* mutant: no catch
Caught_Never(attempt) == FALSE

\* catch (err): every failure of the try block is caught
Caught(attempt) == attempt.threw

\* mutant: the caret is compared with the start of the range
DisposeOnFailure_Start(ctx, tracker) == ctx.position = tracker.range[1]

\* mutant: <= in place of ===
DisposeOnFailure_UpToEnd(ctx, tracker) == ctx.position <= tracker.range[2]

\* if (ctx.position === tracker.range[1])   (0-based index 1: the end)
DisposeOnFailure(ctx, tracker) == ctx.position = tracker.range[2]

\* What the head of a request decided: got, the tracker getTracker answered,
\* d, the tracker to work with, and what it asked on the way.
Activation(got, d, allowAsked, allowed, found, boundary) ==
    [got |-> got, d |-> d, allowAsked |-> allowAsked, allowed |-> allowed,
     resolved |-> IF d.resolverCalls > 0 THEN found ELSE Absent,
     extracted |-> IF d.extractCalls > 0 THEN boundary ELSE Absent]

\* mutant: an invoked request extracts even when a tracker is live
activate_InvokeRestarts(slot, text, ctx, env) ==
    LET got == getTracker(slot)
    IN IF ctx.reason = "Invoke"
       THEN Activation(got, extractAbbreviationTracking(
                                ctx, env.found, env.boundary, env.fmt),
                       FALSE, FALSE, env.found, env.boundary)
       ELSE IF got # Absent
       THEN Activation(got, [NoDecision EXCEPT !.tracker = got],
                       FALSE, FALSE, Absent, Absent)
       ELSE IF env.allow
       THEN Activation(got, startAbbreviationTracking(
                                text, ctx, env.found, env.fmt),
                       TRUE, TRUE, env.found, Absent)
       ELSE Activation(got, NoDecision, TRUE, FALSE, Absent, Absent)

\* mutant: allowTracking is asked and its answer ignored
activate_NoGate(slot, text, ctx, env) ==
    LET got == getTracker(slot)
    IN IF NeedsTracking(got)
       THEN IF ctx.reason = "Invoke"
            THEN Activation(got, extractAbbreviationTracking(
                                     ctx, env.found, env.boundary, env.fmt),
                            FALSE, FALSE, env.found, env.boundary)
            ELSE Activation(got, startAbbreviationTracking(
                                     text, ctx, env.found, env.fmt),
                            TRUE, env.allow, env.found, Absent)
       ELSE Activation(got, [NoDecision EXCEPT !.tracker = got],
                       FALSE, FALSE, Absent, Absent)

\* mutant: the tracker of an earlier request is kept across requests and
\* used instead of the slot
activate_Cached(slot, text, ctx, env) ==
    LET got == IF prior.earlier # Absent THEN prior.earlier
               ELSE getTracker(slot)
    IN IF got = Absent
       THEN IF ctx.reason = "Invoke"
            THEN Activation(got, extractAbbreviationTracking(
                                     ctx, env.found, env.boundary, env.fmt),
                            FALSE, FALSE, env.found, env.boundary)
            ELSE IF env.allow
            THEN Activation(got, startAbbreviationTracking(
                                     text, ctx, env.found, env.fmt),
                            TRUE, TRUE, env.found, Absent)
            ELSE Activation(got, NoDecision, TRUE, FALSE, Absent, Absent)
       ELSE Activation(got, [NoDecision EXCEPT !.tracker = got],
                       FALSE, FALSE, Absent, Absent)

\* The head of provideCompletionItems: reuse the live tracker, or try to
\* start one.  env: the answers of the collaborators during this request
\* (allow: allowTracking, found: getAbbreviationContext, boundary: extract,
\* fmt: the editor state getOutputOptions reads).
activate(slot, text, ctx, env) ==
    LET got == getTracker(slot)
    IN IF NeedsTracking(got)
       THEN IF ctx.reason = "Invoke"
            THEN Activation(got, extractAbbreviationTracking(
                                     ctx, env.found, env.boundary, env.fmt),
                            FALSE, FALSE, env.found, env.boundary)
            ELSE IF env.allow
            THEN Activation(got, startAbbreviationTracking(
                                     text, ctx, env.found, env.fmt),
                            TRUE, TRUE, env.found, Absent)
            ELSE Activation(got, NoDecision, TRUE, FALSE, Absent, Absent)
       ELSE Activation(got, [NoDecision EXCEPT !.tracker = got],
                       FALSE, FALSE, Absent, Absent)

\* mutant: the caret test and stopTracking run after the try block, whether or
\* not the expansion failed
complete_DisposeAfterTry(slot, text, ctx, dec, fmt, outcome) ==
    LET tracker == dec.d.tracker
        slot1 == IF dec.d.startCalls > 0 THEN tracker ELSE slot
        base == [editor |-> "", position |-> ctx.position,
                 reason |-> ctx.reason,
                 before |-> dec.got, allowAsked |-> dec.allowAsked,
                 allowed |-> dec.allowed,
                 triggerTested |-> dec.d.triggerTested,
                 resolverCalls |-> dec.d.resolverCalls,
                 resolved |-> dec.resolved,
                 extractCalls |-> dec.d.extractCalls,
                 extracted |-> dec.extracted,
                 startCalls |-> dec.d.startCalls,
                 started |-> IF dec.d.startCalls > 0 THEN tracker ELSE Absent,
                 stopCalls |-> 0, expandCalls |-> 0, config |-> Absent,
                 outcome |-> "none", items |-> <<>>, threw |-> FALSE]
    IN IF tracker # Absent
       THEN LET t == The(tracker)
                config == getConfig(fmt, t)
                attempt == createExpandAbbreviationCompletion(
                               text, t, config, outcome)
                log == [base EXCEPT
                          !.config = Some(config),
                          !.outcome = outcome,
                          !.expandCalls = attempt.expandCalls,
                          !.items = IF attempt.threw THEN <<>>
                                    ELSE <<The(attempt.item)>>]
            IN IF DisposeOnFailure(ctx, t)
               THEN [slot |-> stopTracking(slot1),
                     log |-> [log EXCEPT !.stopCalls = 1]]
               ELSE [slot |-> slot1, log |-> log]
       ELSE [slot |-> slot1, log |-> base]

\* The rest of provideCompletionItems, from `if (tracker)`: the candidate, or
\* the disposal policy.  outcome: what the expansion engine does.
complete(slot, text, ctx, dec, fmt, outcome) ==
    LET tracker == dec.d.tracker
        slot1 == IF dec.d.startCalls > 0 THEN tracker ELSE slot
        base == [editor |-> "", position |-> ctx.position,
                 reason |-> ctx.reason,
                 before |-> dec.got, allowAsked |-> dec.allowAsked,
                 allowed |-> dec.allowed,
                 triggerTested |-> dec.d.triggerTested,
                 resolverCalls |-> dec.d.resolverCalls,
                 resolved |-> dec.resolved,
                 extractCalls |-> dec.d.extractCalls,
                 extracted |-> dec.extracted,
                 startCalls |-> dec.d.startCalls,
                 started |-> IF dec.d.startCalls > 0 THEN tracker ELSE Absent,
                 stopCalls |-> 0, expandCalls |-> 0, config |-> Absent,
                 outcome |-> "none", items |-> <<>>, threw |-> FALSE]
    IN IF tracker # Absent
       THEN LET t == The(tracker)
                config == getConfig(fmt, t)
                attempt == createExpandAbbreviationCompletion(
                               text, t, config, outcome)
                log == [base EXCEPT !.config = Some(config),
                                    !.outcome = outcome,
                                    !.expandCalls = attempt.expandCalls]
            IN IF ~attempt.threw
               THEN [slot |-> slot1,
                     log |-> [log EXCEPT !.items = <<The(attempt.item)>>]]
               ELSE IF ~Caught(attempt)
               THEN [slot |-> slot1, log |-> [log EXCEPT !.threw = TRUE]]
               ELSE IF DisposeOnFailure(ctx, t)
               THEN [slot |-> stopTracking(slot1),
                     log |-> [log EXCEPT !.stopCalls = 1]]
               ELSE [slot |-> slot1, log |-> log]
       ELSE [slot |-> slot1, log |-> base]

\* The answers the collaborators can give to the head of a request in editor
\* state fmt: allowTracking is a question of typing requests, extract one of
\* invoked requests.
Envs(ctx, fmt) ==
    [allow : IF ctx.reason # "Invoke" THEN BOOLEAN ELSE {FALSE},
     found : {Absent} \cup {Some(c) : c \in ActivationContexts},
     boundary : IF ctx.reason = "Invoke"
                THEN {Absent} \cup {Some(b) : b \in Boundaries(ctx.position)}
                ELSE {Absent},
     fmt : {fmt}]

\* Every way a request with context ctx can end: the new slot and the record
\* of the request, over the answers of the collaborators.
provideCompletionItems(slot, text, ctx) ==
    UNION { { complete(slot, text, ctx, dec, fmt, outcome) :
                dec \in { activate(slot, text, ctx, env) :
                            env \in Envs(ctx, fmt) },
                outcome \in ExpandOutcomes } :
            fmt \in Formats }

(***************************************************************************)
(* The state machine.                                                      *)
(***************************************************************************)
\* CompletionContext of a request on text: the caret and the text before it.
Requests(text) ==
    { [position |-> p, line |-> SubSeq(text, 1, p), reason |-> r] :
        p \in 0..Len(text), r \in Reasons }

\* No earlier request.
NoPrior ==
    [earlier |-> Absent, disposed |-> FALSE, external |-> FALSE,
     atStart |-> Absent]

Init ==
    /\ doc = [e \in Editors |-> <<>>]
    /\ trackers = [e \in Editors |-> Absent]
    /\ last = Absent
    /\ prior = NoPrior

\* mutant: stopTracking disposes the tracker of every editor
RequestStep_StopsAll(e, ctx) ==
    \E r \in provideCompletionItems(trackers[e], doc[e], ctx) :
      /\ trackers' = [x \in Editors |->
                        IF x = e THEN r.slot
                        ELSE IF r.log.stopCalls > 0
                             THEN stopTracking(trackers[x])
                             ELSE trackers[x]]
      /\ last' = Some([r.log EXCEPT !.editor = e])
      /\ UNCHANGED doc

\* One completion request on editor e with context ctx: its effect on the
\* slot of e (every tracker call of the request is given `editor`) and its
\* record.
RequestStep(e, ctx) ==
    \E r \in provideCompletionItems(trackers[e], doc[e], ctx) :
      /\ trackers' = [trackers EXCEPT ![e] = r.slot]
      /\ last' = Some([r.log EXCEPT !.editor = e])
      /\ UNCHANGED doc

Request(e, ctx) == RequestStep(e, ctx) /\ UNCHANGED prior

ProvideCompletionItems(e) ==
    \E ctx \in Requests(doc[e]) : Request(e, ctx)

\* handleChange (./tracker) after an edit: the tracker is disposed or follows
\* the edit with its end moved by the length delta.
TrackerAfterChange(slot, delta, newLen) ==
    {Absent} \cup
    UNION { { Some([t EXCEPT !.range = <<t.range[1], e2>>]) :
                e2 \in { x \in {t.range[2], t.range[2] + delta} :
                           t.range[1] < x /\ x <= newLen } } :
            t \in slot }

\* The user types a character of chars at the end of the document; the host
\* calls handleChange.
TypeStepOf(e, chars) ==
    \E ch \in chars :
      /\ Len(doc[e]) < MaxDocLen
      /\ doc' = [doc EXCEPT ![e] = Append(@, ch)]
      /\ \E s \in TrackerAfterChange(trackers[e], 1, Len(doc[e]) + 1) :
           trackers' = [trackers EXCEPT ![e] = s]
      /\ last' = Absent

TypeStep(e) == TypeStepOf(e, TypedChars)

TypeChar(e) == TypeStep(e) /\ UNCHANGED prior

\* The user deletes the last character; the host calls handleChange.
DeleteStep(e) ==
    /\ Len(doc[e]) > 0
    /\ doc' = [doc EXCEPT ![e] = SubSeq(@, 1, Len(@) - 1)]
    /\ \E s \in TrackerAfterChange(trackers[e], -1, Len(doc[e]) - 1) :
         trackers' = [trackers EXCEPT ![e] = s]
    /\ last' = Absent

DeleteChar(e) == DeleteStep(e) /\ UNCHANGED prior

\* handleSelectionChange (./tracker): the caret moved; the tracker is kept
\* or disposed.
SelectionStep(e) ==
    /\ \E s \in {trackers[e], Absent} :
         trackers' = [trackers EXCEPT ![e] = s]
    /\ last' = Absent
    /\ UNCHANGED doc

HandleSelectionChange(e) == SelectionStep(e) /\ UNCHANGED prior

Next ==
    \E e \in Active :
      \/ ProvideCompletionItems(e)
      \/ TypeChar(e)
      \/ DeleteChar(e)
      \/ HandleSelectionChange(e)

Spec == Init /\ [][Next]_vars

(***************************************************************************)
(* The implicit start on every text: the document is any text of AllChars, *)
(* and typing requests arrive while no tracker is live.                    *)
(***************************************************************************)
RECURSIVE Texts(_)
Texts(n) ==
    IF n = 0 THEN {<<>>}
    ELSE LET shorter == Texts(n - 1)
         IN shorter \cup { Append(t, c) : t \in shorter, c \in AllChars }

InitTrigger ==
    /\ doc \in { [e \in Editors |-> IF e \in Active THEN t ELSE <<>>] :
                  t \in Texts(MaxDocLen) }
    /\ trackers = [e \in Editors |-> Absent]
    /\ last = Absent
    /\ prior = NoPrior

TypingRequest(e) ==
    /\ trackers[e] = Absent
    /\ \E ctx \in Requests(doc[e]) :
         ctx.reason # "Invoke" /\ Request(e, ctx)

NextTrigger == \E e \in Active : TypingRequest(e)

SpecTrigger == InitTrigger /\ [][NextTrigger]_vars

TypeOK ==
    /\ \A e \in Editors : Len(doc[e]) <= MaxDocLen
    /\ \A e \in Editors : Cardinality(trackers[e]) <= 1
    /\ Cardinality(last) <= 1

(***************************************************************************)
(* Properties.  `last` holds the record of the request that has just ended *)
(* (an edit or a caret move clears it), so doc[r.editor] is the text the   *)
(* request saw and trackers[r.editor] the slot it left.                    *)
(***************************************************************************)
\* The tracker a request worked with: the one it started, else the one it found.
Used(r) == IF r.startCalls > 0 THEN r.started ELSE r.before

Failed(r) == r.outcome \in {"normalFails", "previewFails"}

\* C1 (disposal exactness): a request that has a tracker (reused or just
\* started) and whose expansion fails disposes the tracker if and only if the
\* request position equals the end of the tracked range; at every other
\* position the tracker stays live, its range unchanged.
C1_DisposalExactness ==
    \A r \in last :
      (Used(r) # Absent /\ Failed(r)) =>
        IF r.position = The(Used(r)).range[2]
        THEN trackers[r.editor] = Absent /\ r.stopCalls = 1
        ELSE trackers[r.editor] = Used(r) /\ r.stopCalls = 0

\* C1 witness: a failed expansion with the caret at the range end has disposed
\* a tracker that was live before the request.
C1_Witness ==
    \E r \in last :
      /\ r.before # Absent /\ Failed(r)
      /\ r.position = The(r.before).range[2]
      /\ trackers[r.editor] = Absent

\* A failed expansion with the caret strictly inside the range has kept the
\* tracker.
C1_KeptReached ==
    \E r \in last :
      /\ r.before # Absent /\ Failed(r)
      /\ r.position < The(r.before).range[2]
      /\ trackers[r.editor] = r.before

\* The text before the caret of request r.
LineOf(r) == SubSeq(doc[r.editor], 1, r.position)

\* C2 (bracket-pairing extension): a typing request that starts tracking ends
\* the range one past the caret when the character before the caret is one of
\* ( [ { and the character after the caret is its closer, and at the caret
\* otherwise.
C2_BracketPairing ==
    \A r \in last :
      (r.reason # "Invoke" /\ r.startCalls = 1) =>
        /\ r.position >= 1
        /\ LET text == doc[r.editor]
               pos == r.position
               paired == /\ pos < Len(text)
                         /\ <<text[pos], text[pos + 1]>> \in
                              { <<"(", ")">>, <<"[", "]">>, <<"{", "}">> }
           IN The(r.started).range[2] = IF paired THEN pos + 1 ELSE pos

\* C2 witness: tracking started on "(" with ")" after the caret, and the range
\* includes the closer.
C2_Witness ==
    \E r \in last :
      /\ r.reason # "Invoke" /\ r.startCalls = 1
      /\ r.position >= 1 /\ r.position < Len(doc[r.editor])
      /\ doc[r.editor][r.position] = "("
      /\ doc[r.editor][r.position + 1] = ")"
      /\ The(r.started).range = <<r.position - 1, r.position + 1>>
      /\ trackers[r.editor] # Absent

\* The trigger pattern as the specification words it: the last character is a
\* letter or one of . # [ ( and, when a character precedes it, that character
\* is white space or '>'.
MatchesTrigger(line) ==
    /\ Len(line) >= 1
    /\ \/ line[Len(line)] \in Letters
       \/ line[Len(line)] \in {".", "#", "[", "("}
    /\ Len(line) >= 2 =>
         (line[Len(line) - 1] \in WhiteSpace \/ line[Len(line) - 1] = ">")

\* C3 (implicit trigger precision): a typing request with no live tracker and
\* tracking allowed asks the resolver exactly when the text before the caret
\* matches the trigger pattern, and when a context resolves there it starts a
\* tracker whose range starts at position - 1; when the pattern fails, no
\* tracker is started and the resolver is not asked.
C3_TriggerPrecision ==
    \A r \in last :
      (r.reason # "Invoke" /\ r.before = Absent /\ r.allowed) =>
        IF MatchesTrigger(LineOf(r))
        THEN /\ r.resolverCalls = 1
             /\ r.resolved # Absent =>
                  /\ r.startCalls = 1
                  /\ The(r.started).range[1] = r.position - 1
        ELSE r.startCalls = 0 /\ r.resolverCalls = 0 /\ r.started = Absent

\* C3 witness: a tracker started on a two-character prefix, boundary then
\* letter.
C3_Witness ==
    \E r \in last :
      /\ r.reason # "Invoke" /\ r.before = Absent /\ r.allowed
      /\ r.position = 2
      /\ LineOf(r) = <<">", "a">>
      /\ r.resolved # Absent /\ r.startCalls = 1
      /\ The(r.started).range[1] = 1

\* C4 (no double tracking): every editor has at most one live tracker, and a
\* request calls startTracking at most once, and only when getTracker answered
\* absent at its start.
C4_NoDoubleTracking ==
    /\ \A e \in Editors : Cardinality(trackers[e]) <= 1
    /\ \A r \in last :
         /\ r.startCalls <= 1
         /\ r.startCalls = 1 => r.before = Absent

\* C4 witness: a request that found no tracker has started one, and it is the
\* live tracker of the editor.
C4_Witness ==
    \E r \in last :
      /\ r.before = Absent /\ r.startCalls = 1
      /\ trackers[r.editor] = r.started
      /\ Cardinality(trackers[r.editor]) = 1

\* C5 (tracker reuse): a request that finds a live tracker starts none, asks
\* neither the resolver nor the extraction, and leaves the tracker as it was,
\* unless it disposes it after a failed expansion.
C5_TrackerReuse ==
    \A r \in last :
      r.before # Absent =>
        /\ r.startCalls = 0 /\ r.started = Absent
        /\ r.resolverCalls = 0 /\ r.extractCalls = 0
        /\ trackers[r.editor] \in {r.before, Absent}
        /\ trackers[r.editor] = Absent => (Failed(r) /\ r.stopCalls = 1)

\* C5 witness: an invoked request has reused the live tracker and returned its
\* candidate.
C5_Witness ==
    \E r \in last :
      /\ r.before # Absent /\ r.reason = "Invoke"
      /\ trackers[r.editor] = r.before
      /\ Len(r.items) = 1

\* The preview configuration of c, field by field.
PreviewOf(c) ==
    [type |-> c.type, syntax |-> c.syntax, context |-> c.context,
     options |-> [field |-> "previewField", indent |-> "  ",
                  baseIndent |-> "", format |-> c.options.format]]

\* C6 (candidate fidelity): when both expansions of the tracked text succeed
\* the request returns one candidate: its label is the text of the tracked
\* range, its insertion text the expansion under the request's configuration,
\* its documentation the expansion under the preview configuration, its range
\* the tracked range, tokenize is set and the detail is "Emmet".
C6_CandidateFidelity ==
    \A r \in last :
      (Used(r) # Absent /\ r.outcome = "ok") =>
        LET t == The(Used(r))
            A == SubSeq(doc[r.editor], t.range[1] + 1, t.range[2])
            c == The(r.config)
        IN /\ Len(r.items) = 1
           /\ r.items[1].label = A
           /\ r.items[1].insertText = expand(A, c)
           /\ r.items[1].documentation = expand(A, PreviewOf(c))
           /\ r.items[1].range = [start |-> t.range[1], end |-> t.range[2]]
           /\ r.items[1].tokenize = TRUE
           /\ r.items[1].detail = "Emmet"

\* C6 witness: a candidate for the two-character abbreviation "(a".
C6_Witness ==
    \E r \in last :
      /\ Used(r) # Absent /\ r.outcome = "ok"
      /\ Len(r.items) = 1
      /\ r.items[1].label = <<"(", "a">>
      /\ r.items[1].insertText # r.items[1].documentation

\* C7 (never fails outward): every request returns, with no or one candidate,
\* and a failed expansion returns none, whether or not the tracker is disposed.
C7_NeverFailsOutward ==
    \A r \in last :
      /\ ~r.threw
      /\ Len(r.items) <= 1
      /\ Failed(r) => r.items = <<>>

\* C7 witness: a failed expansion has returned no candidate and kept the
\* tracker.
C7_Witness ==
    \E r \in last :
      /\ Failed(r) /\ ~r.threw /\ r.items = <<>>
      /\ r.stopCalls = 0
      /\ trackers[r.editor] # Absent

\* The configuration derived from the context and options attached to t when
\* it was started.
ConfigAtStart(t) ==
    [type |-> getSyntaxType(t.syntax), syntax |-> t.syntax,
     context |-> t.context, options |-> t.options]

\* C8 (configuration stability): a request that reuses a tracker expands under
\* the configuration derived when the tracker was started.
C8_ConfigStability ==
    \A r \in last :
      r.before # Absent => r.config = Some(ConfigAtStart(The(r.before)))

\* The parts of the configuration that come from the attached context are
\* those of the tracker.
C8_ContextPartStable ==
    \A r \in last :
      r.before # Absent =>
        /\ The(r.config).syntax = The(r.before).syntax
        /\ The(r.config).context = The(r.before).context
        /\ The(r.config).type = getSyntaxType(The(r.before).syntax)

\* C9 (miss paths leave no trace): with no live tracker, an invoked request
\* whose context or extraction is absent, and a typing request whose trigger
\* fails, whose context is absent or that is not allowed, return no candidate,
\* leave the slot absent and do not call the expansion engine.
C9_MissLeavesNoTrace ==
    \A r \in last :
      ( /\ r.before = Absent
        /\ IF r.reason = "Invoke"
           THEN r.resolved = Absent \/ r.extracted = Absent
           ELSE \/ ~r.allowed
                \/ ~MatchesTrigger(LineOf(r))
                \/ r.resolved = Absent ) =>
        /\ r.items = <<>>
        /\ trackers[r.editor] = Absent
        /\ r.startCalls = 0 /\ r.stopCalls = 0
        /\ r.expandCalls = 0

\* C9 witness: an invoked request whose context resolved and whose extraction
\* found nothing.
C9_Witness ==
    \E r \in last :
      /\ r.before = Absent /\ r.reason = "Invoke"
      /\ r.resolved # Absent /\ r.extractCalls = 1 /\ r.extracted = Absent
      /\ r.items = <<>> /\ trackers[r.editor] = Absent

\* C10 (explicit invocation bypasses the implicit gates): an invoked request
\* with no live tracker, a resolved context and an extracted boundary starts a
\* tracker over exactly that boundary; it applies neither the trigger test
\* nor allowTracking.
C10_InvokeBypassesGates ==
    \A r \in last :
      ( /\ r.reason = "Invoke" /\ r.before = Absent
        /\ r.resolved # Absent /\ r.extracted # Absent ) =>
        /\ r.startCalls = 1
        /\ The(r.started).range =
             <<The(r.extracted).start, The(r.extracted).end>>
        /\ ~r.allowAsked /\ ~r.triggerTested /\ ~r.allowed

\* C10 witness: a tracker started by invocation over a boundary that ends
\* before the caret, on a line that fails the trigger pattern.
C10_Witness ==
    \E r \in last :
      /\ r.reason = "Invoke" /\ r.before = Absent /\ r.startCalls = 1
      /\ ~MatchesTrigger(LineOf(r))
      /\ The(r.started).range = <<0, 1>> /\ r.position = 2

(***************************************************************************)
(* Requests separated by external events: SpecStale keeps in `prior` the   *)
(* tracker the earlier request worked with, whether that request disposed  *)
(* it, whether a change or selection handler ran since, and the slot as    *)
(* the latest request found it.                                            *)
(***************************************************************************)
PriorAfter(e, isRequest) ==
    LET earlier == IF last # Absent THEN Used(The(last)) ELSE prior.earlier
    IN [earlier |-> earlier,
        disposed |-> IF last # Absent THEN The(last).stopCalls > 0
                     ELSE prior.disposed,
        external |-> IF isRequest
                     THEN last = Absent /\ prior.external
                     ELSE earlier # Absent,
        atStart |-> IF isRequest THEN trackers[e] ELSE Absent]

StaleRequest(e) ==
    /\ \E ctx \in Requests(doc[e]) : RequestStep(e, ctx)
    /\ prior' = PriorAfter(e, TRUE)

\* The characters the user types under SpecStale.
StaleChars == {"a", "("}

StaleType(e) == TypeStepOf(e, StaleChars) /\ prior' = PriorAfter(e, FALSE)

StaleDelete(e) == DeleteStep(e) /\ prior' = PriorAfter(e, FALSE)

StaleSelection(e) == SelectionStep(e) /\ prior' = PriorAfter(e, FALSE)

NextStale ==
    \E e \in Active :
      \/ StaleRequest(e)
      \/ StaleType(e)
      \/ StaleDelete(e)
      \/ StaleSelection(e)

SpecStale == Init /\ [][NextStale]_vars

\* C11 (no stale tracker across requests): the tracker a request gets from
\* getTracker is the slot's value at its start, whatever an earlier request
\* worked with and whatever the change and selection handlers did since; a
\* candidate's range and a disposal are those of that tracker (or of the one
\* the request started), and with an absent slot the activation decision runs.
C11_NoStaleTracker ==
    \A r \in last :
      /\ r.before = prior.atStart
      /\ r.before # Absent => Used(r) = r.before
      /\ r.before = Absent =>
           IF r.reason = "Invoke" THEN r.resolverCalls = 1 ELSE r.allowAsked
      /\ r.config # Absent => Used(r) # Absent
      /\ r.items # <<>> =>
           /\ Used(r) # Absent
           /\ r.items[1].range = [start |-> The(Used(r)).range[1],
                                  end |-> The(Used(r)).range[2]]
      /\ r.stopCalls > 0 =>
           /\ Used(r) # Absent
           /\ r.position = The(Used(r)).range[2]

\* C11 witness: after a request with one tracker, a handler replaced it by a
\* tracker with another range, and the next request returned a candidate over
\* the new range.
C11_Witness ==
    \E r \in last :
      /\ prior.external
      /\ prior.earlier # Absent /\ prior.atStart # Absent
      /\ The(prior.atStart).range # The(prior.earlier).range
      /\ Len(r.items) = 1
      /\ r.items[1].range = [start |-> The(prior.atStart).range[1],
                             end |-> The(prior.atStart).range[2]]

\* After a request with a tracker, a handler disposed it, and the next request
\* ran the activation and started a fresh tracker.
C11_DisposedReached ==
    \E r \in last :
      /\ prior.external
      /\ prior.earlier # Absent /\ prior.atStart = Absent
      /\ r.before = Absent /\ r.startCalls = 1

\* C12 (fresh start after disposal): when the earlier request disposed its
\* tracker, the next typing request finds no tracker and asks allowTracking;
\* allowed, on a text that matches the trigger pattern, it asks the resolver,
\* and with a context resolved it starts a tracker whose range starts at
\* position - 1 and whose context and options are those of this request.
C12_FreshStartAfterDisposal ==
    \A r \in last :
      (prior.disposed /\ r.reason # "Invoke") =>
        /\ r.before = Absent
        /\ r.allowAsked
        /\ (r.allowed /\ MatchesTrigger(LineOf(r))) =>
             /\ r.resolverCalls = 1
             /\ r.resolved # Absent =>
                  /\ r.startCalls = 1
                  /\ The(r.started).range[1] = r.position - 1
                  /\ The(r.started).syntax = The(r.resolved).syntax
                  /\ The(r.started).context = The(r.resolved).context
                  /\ The(r.started).inline = The(r.resolved).inline
                  /\ The(r.started).options = The(r.config).options

\* C12 witness: a request disposed its tracker, the user typed, and the next
\* typing request started a tracker that differs from the disposed one.
C12_Witness ==
    \E r \in last :
      /\ prior.disposed /\ prior.external /\ prior.earlier # Absent
      /\ r.reason # "Invoke" /\ r.startCalls = 1
      /\ The(r.started).range[1] = r.position - 1
      /\ r.started # prior.earlier
      /\ trackers[r.editor] = r.started

\* A request disposed its tracker and the very next step is a typing request
\* that started a tracker.
C12_BackToBackReached ==
    \E r \in last :
      /\ prior.disposed /\ ~prior.external /\ prior.earlier # Absent
      /\ r.reason # "Invoke" /\ r.startCalls = 1

\* C13 (implicit start is gated by allowTracking): a typing request that finds
\* no tracker asks allowTracking, and when the answer is no it starts nothing
\* and returns no candidate, whatever the text before the caret, without the
\* trigger test and without asking the resolver.
C13_GatedByAllowTracking ==
    \A r \in last :
      (r.reason # "Invoke" /\ r.before = Absent) =>
        /\ r.allowAsked
        /\ ~r.allowed =>
             /\ r.startCalls = 0 /\ r.started = Absent
             /\ trackers[r.editor] = Absent
             /\ r.items = <<>> /\ r.expandCalls = 0
             /\ ~r.triggerTested /\ r.resolverCalls = 0

\* C13 witness: tracking was not allowed on a text that matches the trigger
\* pattern, and nothing was started.
C13_Witness ==
    \E r \in last :
      /\ r.reason # "Invoke" /\ r.before = Absent
      /\ r.allowAsked /\ ~r.allowed
      /\ MatchesTrigger(LineOf(r))
      /\ trackers[r.editor] = Absent /\ r.items = <<>>

\* C14 (a candidate needs both expansions): a candidate is returned only when
\* both expand calls succeeded; when the second (preview) call fails the
\* request returns none and the disposal policy applies as for a failure of
\* the first: disposed with the caret at the range end, kept otherwise.
C14_BothExpansions ==
    \A r \in last :
      /\ r.items # <<>> => (r.outcome = "ok" /\ r.expandCalls = 2)
      /\ r.outcome = "previewFails" =>
           /\ r.items = <<>> /\ r.expandCalls = 2 /\ ~r.threw
           /\ IF r.position = The(Used(r)).range[2]
              THEN trackers[r.editor] = Absent /\ r.stopCalls = 1
              ELSE trackers[r.editor] = Used(r) /\ r.stopCalls = 0

\* C14 witness: the preview expansion failed with the caret at the range end,
\* and the tracker was disposed.
C14_Witness ==
    \E r \in last :
      /\ r.outcome = "previewFails" /\ r.expandCalls = 2
      /\ r.position = The(Used(r)).range[2]
      /\ r.items = <<>> /\ trackers[r.editor] = Absent

\* C15 (implicit range well-formedness): a tracker started by a typing request
\* at position p has range [p - 1, e] with e = p or e = p + 1, inside the
\* document; at the last position of the document e = p.
C15_ImplicitRangeWellFormed ==
    \A r \in last :
      (r.reason # "Invoke" /\ r.startCalls = 1) =>
        LET range == The(r.started).range
            p == r.position
        IN /\ range[1] = p - 1
           /\ range[2] \in {p, p + 1}
           /\ 0 <= range[1] /\ range[1] < range[2]
           /\ range[2] <= Len(doc[r.editor])
           /\ p = Len(doc[r.editor]) => range[2] = p

\* C15 witness: "(" typed at the very end of the document starts [p - 1, p].
C15_Witness ==
    \E r \in last :
      /\ r.reason # "Invoke" /\ r.startCalls = 1
      /\ r.position = Len(doc[r.editor])
      /\ doc[r.editor][r.position] = "("
      /\ The(r.started).range = <<r.position - 1, r.position>>

\* C16 (candidate implies live tracker): when a request returns a candidate a
\* tracker is live at its end and the candidate's range is that tracker's
\* range; a request whose expansion succeeded does not call stopTracking.
C16_CandidateImpliesTracker ==
    \A r \in last :
      /\ r.items # <<>> =>
           /\ trackers[r.editor] # Absent
           /\ r.items[1].range =
                [start |-> The(trackers[r.editor]).range[1],
                 end |-> The(trackers[r.editor]).range[2]]
      /\ r.outcome = "ok" => r.stopCalls = 0

\* C16 witness: a candidate returned with the caret at the end of the range
\* of the tracker the request started; the tracker is live.
C16_Witness ==
    \E r \in last :
      /\ Len(r.items) = 1 /\ r.startCalls = 1
      /\ trackers[r.editor] = r.started
      /\ r.position = The(r.started).range[2]

\* C17 (fate of a freshly started implicit tracker on failure): a typing
\* request that starts a tracker and whose expansion fails disposes it in the
\* same request when the range ends at the caret, and leaves it live, with no
\* candidate, when the range was extended over the paired closer.
C17_FreshTrackerOnFailure ==
    \A r \in last :
      (r.reason # "Invoke" /\ r.startCalls = 1 /\ Failed(r)) =>
        /\ r.items = <<>>
        /\ IF The(r.started).range[2] = r.position
           THEN trackers[r.editor] = Absent /\ r.stopCalls = 1
           ELSE /\ The(r.started).range[2] = r.position + 1
                /\ trackers[r.editor] = r.started /\ r.stopCalls = 0

\* C17 witness: the range was extended over ")" and the failed expansion left
\* the tracker live.
C17_Witness ==
    \E r \in last :
      /\ r.reason # "Invoke" /\ r.startCalls = 1 /\ Failed(r)
      /\ The(r.started).range[2] = r.position + 1
      /\ doc[r.editor][r.position + 1] = ")"
      /\ trackers[r.editor] = r.started

\* The range was not extended and the failed expansion disposed the tracker
\* the request had just started.
C17_DisposedReached ==
    \E r \in last :
      /\ r.reason # "Invoke" /\ r.startCalls = 1 /\ Failed(r)
      /\ The(r.started).range[2] = r.position
      /\ trackers[r.editor] = Absent

(***************************************************************************)
(* Two editing surfaces: requests and selection changes on both editors,   *)
(* each over a document of its own.                                        *)
(***************************************************************************)
SurfaceText(e) ==
    [i \in 1..MaxDocLen |->
        IF e = "e1" THEN (IF i = 1 THEN "(" ELSE ")") ELSE "a"]

InitSurfaces ==
    /\ doc = [e \in Editors |-> SurfaceText(e)]
    /\ trackers = [e \in Editors |-> Absent]
    /\ last = Absent
    /\ prior = NoPrior

NextSurfaces ==
    \E e \in Editors :
      \/ ProvideCompletionItems(e)
      \/ HandleSelectionChange(e)

SpecSurfaces == InitSurfaces /\ [][NextSurfaces]_vars

C18_DisposedReached ==
    \E r \in last :
      /\ r.editor = "e1" /\ r.stopCalls = 1
      /\ trackers["e1"] = Absent
      /\ trackers["e2"] # Absent

\* C19 (the preview configuration is a pure override): getPreviewConfig of the
\* request's configuration has the same type, syntax, context and remaining
\* options; its field renderer returns the placeholder unchanged, its indent
\* is two spaces and its base indent is empty.  The request's configuration
\* itself keeps the editor's options, and the insertion text of a candidate is
\* expanded under it.
C19_PreviewConfigPureOverride ==
    \A r \in last :
      \A c \in r.config :
        LET p == getPreviewConfig(c)
        IN /\ p.type = c.type /\ p.syntax = c.syntax /\ p.context = c.context
           /\ p.options.format = c.options.format
           /\ p.options.indent = "  " /\ p.options.baseIndent = ""
           /\ \A i \in FieldIndexes, ph \in Placeholders :
                Render(p.options.field, i, ph) = ph
           /\ c.options.field = "field"
           /\ \E fmt \in Formats :
                c.options = getOutputOptions(fmt, The(Used(r)).inline)
           /\ \A i \in 1..Len(r.items) :
                /\ r.items[i].insertText = expand(r.items[i].label, c)
                /\ r.items[i].documentation = expand(r.items[i].label, p)

\* C19 witness: a candidate in an inline context of an editor with its own
\* indent and base indent: the preview differs from the configuration in the
\* three overridden options and the insertion text keeps the editor's.
C19_Witness ==
    \E r \in last :
      /\ Len(r.items) = 1
      /\ The(Used(r)).inline
      /\ r.items[1].insertText.config.options.indent = "    "
      /\ r.items[1].insertText.config.options.baseIndent = "\t"
      /\ ~r.items[1].insertText.config.options.format
      /\ r.items[1].documentation.config.options.indent = "  "
      /\ Render(r.items[1].insertText.config.options.field, 1, <<"x">>)
           # <<"x">>

====
